---- MODULE Spec2Model ----
(***************************************************************************)
(* Model of the rend-http backend adapter (httph.Handler) together with    *)
(* the dynamic config store it reads (config.Get / handleConfig) and the   *)
(* HTTP backend it talks to (the server of handler_test.go).               *)
(*                                                                         *)
(* One caller invokes Set, Delete and Get on the shared handler.  Set and  *)
(* Delete run in the caller; Get starts the realHandleGet goroutine, which *)
(* hands results to the caller over two unbuffered channels.  A config     *)
(* PUT may be served between any two steps.                                *)
(***************************************************************************)
EXTENDS Integers, Sequences, FiniteSets, TLC

\* ------------------------------------------------------------------ bounds
MaxKeys == 2          \* longest key list of a Get request
MaxConfTries == 1     \* largest numTries value published through PUT /config
MaxMaps == 3          \* conf maps allocated in one run of the config endpoint
MaxNew == 2           \* calls of New
MaxConns == 4         \* calls of the constructor functions New returned
MaxCloses == 2        \* calls of Close

\* ------------------------------------------------------- program constants
NumTriesConfigName == "numTries"
DefaultNumTries == 4
RetryDelayMultiplierConfigName == "retryDelayMultiplier"
DefaultRetryDelayMultiplier == 10

\* ------------------------------------------------------------ input domains
StoredKeys == {"a"}                 \* keys that Set and Delete are called on
GoodKeys == StoredKeys \cup {"b"}   \* keys that give a URL that parses
BadKey == "%"                       \* a key that makes the URL unparsable
Keys == GoodKeys \cup {BadKey}
Payloads == {<<1>>}                 \* byte strings stored in the backend
SetPayloads == {<<1>>, <<2>>, <<1, 2>>}   \* payloads of Set when what the
                                          \* backend stores is looked at
\* the opaque and the quiet flag that go with the key at index j of a Get
\* request, in the two patterns p = 0 and p = 1
EntryAt(p, j) ==
    IF (j + p) % 2 = 0 THEN [Opaque |-> 0, Quiet |-> FALSE]
                       ELSE [Opaque |-> 7, Quiet |-> TRUE]
StatusCodes == {200, 299, 400, 404, 500, 503}
TransportErrs == {"errDial", "errReset"}
ErrReadBody == "errUnexpectedEOF"
ErrNewRequest == "errParseURL"
ErrInternal == "ErrInternal"
ErrUnknownCmd == "ErrUnknownCmd"
Nil == "nil"

NumTriesVals == (0 - 1)..MaxConfTries

\* the config endpoint: requests in progress at the same time, names, paths
\* below /config (<<>> is /config, <<"">> is /config/), request bodies,
\* fallbacks handed to config.Get
Procs == {"r1", "r2"}
ConfNames == {NumTriesConfigName, "foo"}
Paths == {<<>>, <<"">>} \cup {<<n>> : n \in ConfNames}
Methods == {"GET", "PUT", "POST"}
Bodies == {<<"4">>, <<"-", "1">>, <<"x">>}
Fallbacks == {17}

\* the arguments of New
Hosts == {"h1", "h2"}
Ports == {8080}
Caches == {"evcache"}
MultiplierVals == {3}

\* ------------------------------------------------------------------- state
VARIABLES
    conf,        \* config: the snapshot held by confHolder
    server,      \* backend: the data map of the HTTP server
    cmd,         \* the request of the operation in progress
    pc,          \* position of the thread executing the operation
    idx,         \* realHandleGet: index of the key being resolved (1-based)
    i,           \* index of the current try (0-based)
    tries,       \* the local variable tries
    pending,     \* value the goroutine is blocked sending, or the value
                 \* sitting in the buffer of GetE's error channel
    dataOut,     \* result channel: "none", "open", "closed", or "nil"
    errorOut,    \* error channel: "none", "open", "closed", or "buffered"
                 \* (GetE: capacity 1, holding a value)
    dataRecv,    \* results the consumer has received from dataOut, in order
    errRecv,     \* errors the consumer has received from errorOut, in order
    consData,    \* consumer has seen dataOut closed
    consErr,     \* consumer has seen errorOut closed
    ret,         \* value returned by Set / Delete ("none" while running)
    req,         \* the request handed to client.Do in the current try
    res,         \* the locals res, data, err of the current try
    logged,      \* status code of the last "Unexpected status code" log line
    numReqs,     \* HTTP calls (client.Do) made by the operation so far
    slept,       \* durations waited in retryDelay for the current key
    unclosed,    \* response bodies obtained by the operation and not closed
    heap,        \* config: the conf maps allocated so far (a Go map is a
                 \* reference; heap[p] is what the map at address p holds)
    holder,      \* config: the address stored in confHolder
    procs,       \* config: the calls of handleConfig and Get in progress
    handlers,    \* the Handler structs allocated by New so far
    factories,   \* the closures returned by New: the address each captured
    conns,       \* the results of the calls of those closures, in order
    closed       \* the calls of Close so far: the connection and the result

\* the state of the adapter's operations, of the config store, of New
handlerVars == <<server, cmd, pc, idx, i, tries, pending, dataOut, errorOut,
                 dataRecv, errRecv, consData, consErr, ret, req, res, logged,
                 numReqs, slept, unclosed>>

storeVars == <<heap, holder, procs>>

factoryVars == <<handlers, factories, conns, closed>>

vars == <<conf, handlerVars, storeVars, factoryVars>>

\* ----------------------------------------------------------------- helpers
Prefixes(s) == {SubSeq(s, 1, n) : n \in 0..Len(s)}

SeqsUpTo(S, n) == UNION {[1..m -> S] : m \in 0..n}

NoCmd == [op |-> "none", Key |-> "", Keys |-> <<>>, Opaques |-> <<>>,
          Quiet |-> <<>>, Data |-> <<>>, Exptime |-> 0]

\* the zero common.GetResponse
NoResponse == [Miss |-> FALSE, Quiet |-> FALSE, Opaque |-> 0, Flags |-> 0,
               Key |-> "", Data |-> <<>>]

NoPending == [data |-> NoResponse, err |-> "nil"]

\* no request built / no response in scope
NoReq == [method |-> "", key |-> "", ttl |-> <<>>, body |-> <<>>]

NoRes == [doErr |-> "nil", code |-> 0, body |-> <<>>, data |-> <<>>,
          readErr |-> "nil"]

EmptyConf == [k \in {} |-> 0]

\* no call of handleConfig or config.Get in progress.  code 0: WriteHeader
\* not called; c: the address in the local c; snap: what the map at c held
\* when it was loaded; overlap: the PUT met another PUT between its load
\* and its store; readErr: ioutil.ReadAll(r.Body) returned an error
NoProc == [pc |-> "idle", method |-> "", path |-> <<>>, body |-> <<>>,
           key |-> "", v |-> 0, c |-> 0, snap |-> EmptyConf, todo |-> {},
           code |-> 0, out |-> <<>>, overlap |-> FALSE, result |-> 0,
           readErr |-> FALSE]

\* ------------------------------------------------------------ config store
\* variant: a name that is not set reads as the zero value
configGet_zero(c, key, otherwise) ==
    IF key \in DOMAIN c THEN c[key] ELSE 0

\* config.Get
configGet(c, key, otherwise) ==
    IF key \in DOMAIN c THEN c[key] ELSE otherwise

\* copyConf followed by c[key] = v
copyConfSet(c, key, v) ==
    [k \in (DOMAIN c) \cup {key} |-> IF k = key THEN v ELSE c[k]]

\* variant: the assignment leaves the map with that one pair
mapAssign_only(m, key, v) == [k \in {key} |-> v]

\* c[key] = v on the map m
mapAssign(m, key, v) ==
    [k \in (DOMAIN m) \cup {key} |-> IF k = key THEN v ELSE m[k]]

\* variant: the map is handed back itself, not a copy of it
copyConf_alias(h, orig) == [heap |-> h, addr |-> orig]

\* copyConf: a new map holding the pairs of orig
copyConf(h, orig) == [heap |-> Append(h, h[orig]), addr |-> Len(h) + 1]

Digits == <<"0", "1", "2", "3", "4", "5", "6", "7", "8", "9">>

IsDigit(ch) == \E d \in 1..Len(Digits) : Digits[d] = ch

DigitOf(ch) == (CHOOSE d \in 1..Len(Digits) : Digits[d] = ch) - 1

RECURSIVE ParseUint(_)
ParseUint(s) ==
    IF s = <<>> THEN 0
    ELSE ParseUint(SubSeq(s, 1, Len(s) - 1)) * 10 + DigitOf(s[Len(s)])

\* variant: a text that is no number reads as 0
Atoi_lenient(s) ==
    LET signed == s # <<>> /\ s[1] \in {"+", "-"}
        digits == IF signed THEN Tail(s) ELSE s
    IN  IF digits = <<>> \/ \E j \in 1..Len(digits) : ~IsDigit(digits[j])
        THEN [err |-> FALSE, v |-> 0]
        ELSE [err |-> FALSE,
              v |-> IF s[1] = "-" THEN 0 - ParseUint(digits)
                                  ELSE ParseUint(digits)]

\* strconv.Atoi on texts short enough not to overflow: an optional sign
\* followed by one or more decimal digits
Atoi(s) ==
    LET signed == s # <<>> /\ s[1] \in {"+", "-"}
        digits == IF signed THEN Tail(s) ELSE s
    IN  IF digits = <<>> \/ \E j \in 1..Len(digits) : ~IsDigit(digits[j])
        THEN [err |-> TRUE, v |-> 0]
        ELSE [err |-> FALSE,
              v |-> IF s[1] = "-" THEN 0 - ParseUint(digits)
                                  ELSE ParseUint(digits)]

RECURSIVE FormatUint(_)
FormatUint(n) ==
    IF n < 10 THEN <<Digits[n + 1]>>
    ELSE FormatUint(n \div 10) \o <<Digits[(n % 10) + 1]>>

\* fmt.Fprintf(w, "%s %d\n", k, v)
Fprintf(k, v) ==
    <<k, " ">> \o (IF v < 0 THEN <<"-">> \o FormatUint(0 - v)
                            ELSE FormatUint(v)) \o <<"\n">>

\* strings.TrimSpace(strings.TrimPrefix(r.URL.Path, endpointPath)) is ""
\* or "/"
NoKeyInPath(path) == path = <<>> \/ path = <<"">>

\* key = key[1:]
PathKey(path) == path[1]

\* ----------------------------------------------------------------- backend
\* server.ServeHTTP of the tests; forcecode 0 is the healthy server, 503 is
\* what a positive failtimes answers.
ServeHTTP(s, method, key, body, forcecode) ==
    IF forcecode > 0
    THEN [server |-> s, code |-> forcecode, body |-> <<>>]
    ELSE CASE method = "GET" ->
                IF key \in DOMAIN s
                THEN [server |-> s, code |-> 200, body |-> s[key]]
                ELSE [server |-> s, code |-> 404, body |-> <<>>]
           [] method = "PUT" ->
                [server |-> [k \in (DOMAIN s) \cup {key} |->
                                IF k = key THEN body ELSE s[k]],
                 code |-> 200, body |-> <<>>]
           [] method = "DELETE" ->
                [server |-> [k \in (DOMAIN s) \ {key} |-> s[k]],
                 code |-> 200, body |-> <<>>]

\* ----------------------------------------------------------------- adapter
\* http.NewRequest fails on a URL that does not parse
NewRequestFails(key) == key = BadKey

\* retryDelay: the duration waited before try number try, in ms
\* variant: the wait is under the default multiplier, whatever the store holds
retryDelay_default(c, try) ==
    IF try > 0 THEN <<try * DefaultRetryDelayMultiplier>> ELSE <<>>

retryDelay(c, try) ==
    IF try > 0
    THEN <<try * configGet(c, RetryDelayMultiplierConfigName,
                           DefaultRetryDelayMultiplier)>>
    ELSE <<>>

\* variant: the loop runs once more than the budget allows
LoopTest_inclusive(try, n) == try <= n

\* the loop test i < tries of Set, Delete and realHandleGet
LoopTest(try, n) == try < n

\* variant: every iteration works on the first key
RangeKey_first(keys, j) == keys[1]

\* for idx, key := range cmd.Keys: the key at idx
RangeKey(keys, j) == keys[j]

\* variant: a failed client.Do is reported as the internal error
DoErrSurfaced_internal(err) == ErrInternal

\* return err / errorOut <- err after a failed client.Do: the error surfaced
DoErrSurfaced(err) == err

\* variant: the loop over the keys goes on after the error was sent
AfterErrSend_continue == "outer"

\* variant: the channels are left open on the error path
AfterErrSend_noclose == "done"

\* where realHandleGet goes after errorOut <- err: it returns, which runs the
\* deferred closes
AfterErrSend == "close_data"

\* variant: only 200 counts as success
SetClassify_only200(code) ==
    IF code = 200 THEN "success"
    ELSE IF code = 400 \/ code = 500 THEN "terminal"
    ELSE "retry"

\* variant: 400 is tried again, as in Delete
SetClassify_retry400(code) ==
    IF code >= 200 /\ code < 300 THEN "success"
    ELSE IF code = 500 THEN "terminal"
    ELSE "retry"

\* Handler.Set, the status checks after the body is drained
SetClassify(code) ==
    IF code >= 200 /\ code < 300 THEN "success"
    ELSE IF code = 400 \/ code = 500 THEN "terminal"
    ELSE "retry"

\* variant: 400 ends Delete at once, as in Set
DeleteClassify_terminal400(code) ==
    IF code >= 200 /\ code < 300 THEN "success"
    ELSE IF code = 400 \/ code = 500 THEN "terminal"
    ELSE "retry"

\* Handler.Delete, the status checks after the body is drained
DeleteClassify(code) ==
    IF code >= 200 /\ code < 300 THEN "success"
    ELSE IF code = 500 THEN "terminal"
    ELSE "retry"

\* variant: the case 500 is missing, so 500 is tried again
GetClassify_retry500(code) ==
    CASE code = 200 -> "hit"
      [] code = 404 -> "miss"
      [] OTHER -> "retry"

\* realHandleGet, the switch on res.StatusCode
GetClassify(code) ==
    CASE code = 200 -> "hit"
      [] code = 404 -> "miss"
      [] code = 500 -> "terminal"
      [] OTHER -> "retry"

\* h.client.Do: the outcomes of one HTTP call.  A transport failure returns
\* an error and no response; the request may or may not have been served.
DoAnswering(s, method, key, body, forced) ==
    LET served == {ServeHTTP(s, method, key, body, f) : f \in forced}
    IN  {[err |-> e, server |-> s2, code |-> 0, body |-> <<>>] :
             e \in TransportErrs, s2 \in {s} \cup {r.server : r \in served}}
        \cup
        {[err |-> Nil, server |-> r.server, code |-> r.code, body |-> r.body] :
             r \in served}

\* h.client.Do against a backend that may handle the request or force any of
\* the status codes
Do(s, method, key, body) ==
    DoAnswering(s, method, key, body, {0} \cup StatusCodes)

\* h.client.Do against the server of the tests started with forcecode 0: it
\* answers 503 while failtimes is positive and handles the request after that
DoServed(s, method, key, body) ==
    DoAnswering(s, method, key, body, {0, 503})

\* variant: the body set before the first try is consumed by it
RequestBody_consumed(data, try) == IF try = 0 THEN data ELSE <<>>

\* req.Body = ioutil.NopCloser(bytes.NewReader(cmd.Data)), in every try
RequestBody(data, try) == data

\* io.Copy(ioutil.Discard, res.Body): the error
Discard(body) == {Nil, ErrReadBody}

\* ioutil.ReadAll: the bytes read and the error; a failed read returns the
\* bytes read before the failure
ReadAll(body) ==
    {[data |-> body, err |-> Nil]}
    \cup {[data |-> p, err |-> ErrReadBody] : p \in Prefixes(body)}

\* common.GetResponse
GetResponse(miss, quiet, opaque, key, data) ==
    [Miss |-> miss, Quiet |-> quiet, Opaque |-> opaque, Flags |-> 0,
     Key |-> key, Data |-> data]

Idle == pc = "idle"

\* state of a freshly started operation
Begin(c) ==
    /\ cmd' = c
    /\ i' = 0
    /\ idx' = 1
    /\ pending' = NoPending
    /\ dataRecv' = <<>>
    /\ errRecv' = <<>>
    /\ consData' = FALSE
    /\ consErr' = FALSE
    /\ req' = NoReq
    /\ res' = NoRes
    /\ logged' = 0
    /\ numReqs' = 0
    /\ slept' = <<>>
    /\ unclosed' = 0

\* ------------------------------------------------------------ initial state
\* no operation of the adapter has been called
HandlerInit ==
    /\ cmd = NoCmd
    /\ pc = "idle"
    /\ idx = 1
    /\ i = 0
    /\ tries = 0
    /\ pending = NoPending
    /\ dataOut = "none"
    /\ errorOut = "none"
    /\ dataRecv = <<>>
    /\ errRecv = <<>>
    /\ consData = FALSE
    /\ consErr = FALSE
    /\ ret = "none"
    /\ req = NoReq
    /\ res = NoRes
    /\ logged = 0
    /\ numReqs = 0
    /\ slept = <<>>
    /\ unclosed = 0

\* New has not been called
FactoryInit ==
    /\ handlers = <<>>
    /\ factories = <<>>
    /\ conns = <<>>
    /\ closed = <<>>

Init ==
    /\ conf = EmptyConf
    /\ server \in UNION {[D -> Payloads] : D \in SUBSET StoredKeys}
    /\ HandlerInit
    /\ heap = <<EmptyConf>>
    /\ holder = 1
    /\ procs = [p \in Procs |-> NoProc]
    /\ FactoryInit

\* the config package at start, or at a later time when an earlier PUT has
\* left a snapshot and all calls have returned
ConfInit ==
    /\ conf \in {EmptyConf} \cup [ConfNames -> {4}]
    /\ server = [k \in {} |-> <<>>]
    /\ HandlerInit
    /\ heap = <<conf>>
    /\ holder = 1
    /\ procs = [p \in Procs |-> NoProc]
    /\ FactoryInit

\* ------------------------------------------------------- config management
\* handleConfig, method PUT with a name and an integer body, run without a
\* concurrent writer: load, copy, set, store
ConfigPut(name, v) ==
    /\ conf' = copyConfSet(conf, name, v)
    /\ conf' # conf
    /\ heap' = <<conf'>>
    /\ holder' = 1
    /\ UNCHANGED <<handlerVars, procs, factoryVars>>

PutNumTries == \E v \in NumTriesVals : ConfigPut(NumTriesConfigName, v)

PutMultiplier ==
    \E v \in MultiplierVals : ConfigPut(RetryDelayMultiplierConfigName, v)

\* --------------------------------------------------------- config endpoint
\* the status a client sees: 200 unless WriteHeader was called
Status(code) == IF code = 0 THEN 200 ELSE code

\* a PUT between its confHolder.Load and its confHolder.Store
Writing(r) == r.method = "PUT" /\ r.pc \in {"loaded", "copied"}

\* handleConfig, case "GET", up to c := confHolder.Load().(conf)
HandleGet(p) ==
    \E path \in Paths :
        /\ procs[p].pc = "idle"
        /\ procs' = [procs EXCEPT ![p] =
               [NoProc EXCEPT !.method = "GET", !.path = path,
                   !.c = holder, !.snap = heap[holder],
                   !.key = IF NoKeyInPath(path) THEN "" ELSE PathKey(path),
                   !.todo = IF NoKeyInPath(path) THEN DOMAIN heap[holder]
                                                 ELSE {},
                   !.pc = IF ~NoKeyInPath(path) THEN "lookup"
                          ELSE IF DOMAIN heap[holder] = {} THEN "done"
                          ELSE "range"]]
        /\ UNCHANGED <<conf, heap, holder, handlerVars, factoryVars>>

\* handleConfig, case "GET": one iteration of for k, v := range c
GetRange(p) ==
    \E k \in procs[p].todo :
        /\ procs[p].pc = "range"
        /\ LET r == procs[p]
               m == heap[r.c]
           IN  procs' = [procs EXCEPT ![p] =
                  [r EXCEPT !.out = IF k \in DOMAIN m
                                     THEN r.out \o Fprintf(k, m[k])
                                     ELSE r.out,
                            !.todo = r.todo \ {k},
                            !.pc = IF r.todo = {k} THEN "done"
                                   ELSE "range"]]
        /\ UNCHANGED <<conf, heap, holder, handlerVars, factoryVars>>

\* handleConfig, case "GET": if v, ok := c[key]; ok ... else 404
GetLookup(p) ==
    /\ procs[p].pc = "lookup"
    /\ procs[p].method = "GET"
    /\ LET r == procs[p]
           m == heap[r.c]
       IN  procs' = [procs EXCEPT ![p] =
               IF r.key \in DOMAIN m
               THEN [r EXCEPT !.out = Fprintf(r.key, m[r.key]),
                              !.pc = "done"]
               ELSE [r EXCEPT !.code = 404, !.pc = "done"]]
    /\ UNCHANGED <<conf, heap, holder, handlerVars, factoryVars>>

\* handleConfig, case "PUT", up to c := confHolder.Load().(conf).  readErr:
\* ioutil.ReadAll(r.Body) fails
HandlePut(p) ==
    \E path \in Paths, body \in Bodies, readErr \in BOOLEAN :
        LET r == [NoProc EXCEPT !.method = "PUT", !.path = path,
                                !.body = body]
        IN  /\ procs[p].pc = "idle"
            /\ Len(heap) + Cardinality({q \in Procs : procs[q].pc = "loaded"})
                   < MaxMaps
            /\ procs' =
                 IF NoKeyInPath(path)
                 THEN [procs EXCEPT ![p] =
                          [r EXCEPT !.code = 400, !.pc = "done"]]
                 ELSE IF readErr \/ Atoi(body).err
                 THEN [procs EXCEPT ![p] =
                          [r EXCEPT !.key = PathKey(path), !.code = 500,
                                    !.readErr = readErr, !.pc = "done"]]
                 ELSE [q \in Procs |->
                          IF q = p
                          THEN [r EXCEPT !.key = PathKey(path),
                                   !.v = Atoi(body).v, !.c = holder,
                                   !.snap = heap[holder], !.pc = "loaded",
                                   !.overlap =
                                      \E o \in Procs : Writing(procs[o])]
                          ELSE IF Writing(procs[q])
                          THEN [procs[q] EXCEPT !.overlap = TRUE]
                          ELSE procs[q]]
            /\ UNCHANGED <<conf, heap, holder, handlerVars, factoryVars>>

\* handleConfig, case "PUT": c = copyConf(c); c[key] = v
PutCopySet(p) ==
    /\ procs[p].pc = "loaded"
    /\ LET r == copyConf(heap, procs[p].c)
       IN  /\ heap' = [r.heap EXCEPT ![r.addr] =
                          mapAssign(@, procs[p].key, procs[p].v)]
           /\ procs' = [procs EXCEPT ![p].c = r.addr, ![p].pc = "copied"]
    /\ UNCHANGED <<conf, holder, handlerVars, factoryVars>>

\* handleConfig, case "PUT": confHolder.Store(c)
PutStore(p) ==
    /\ procs[p].pc = "copied"
    /\ holder' = procs[p].c
    /\ conf' = heap[procs[p].c]
    /\ procs' = [procs EXCEPT ![p].pc = "done"]
    /\ UNCHANGED <<heap, handlerVars, factoryVars>>

\* handleConfig, default: 405
HandleOther(p) ==
    \E method \in Methods \ {"GET", "PUT"}, path \in Paths :
        /\ procs[p].pc = "idle"
        /\ procs' = [procs EXCEPT ![p] =
               [NoProc EXCEPT !.method = method, !.path = path, !.code = 405,
                              !.pc = "done"]]
        /\ UNCHANGED <<conf, heap, holder, handlerVars, factoryVars>>

\* config.Get(key, otherwise): c := confHolder.Load().(conf)
ConfigGetLoad(p) ==
    \E key \in ConfNames, otherwise \in Fallbacks :
        /\ procs[p].pc = "idle"
        /\ procs' = [procs EXCEPT ![p] =
               [NoProc EXCEPT !.method = "Get", !.key = key, !.v = otherwise,
                              !.c = holder, !.snap = heap[holder],
                              !.pc = "lookup"]]
        /\ UNCHANGED <<conf, heap, holder, handlerVars, factoryVars>>

\* config.Get: the lookup and the return
ConfigGetReturn(p) ==
    /\ procs[p].pc = "lookup"
    /\ procs[p].method = "Get"
    /\ procs' = [procs EXCEPT ![p].result =
                    configGet(heap[procs[p].c], procs[p].key, procs[p].v),
                              ![p].pc = "done"]
    /\ UNCHANGED <<conf, heap, holder, handlerVars, factoryVars>>

\* the response is written, or config.Get has returned
ProcReturn(p) ==
    /\ procs[p].pc = "done"
    /\ procs' = [procs EXCEPT ![p] = NoProc]
    /\ UNCHANGED <<conf, heap, holder, handlerVars, factoryVars>>

ConfNext ==
    \E p \in Procs :
        \/ HandleGet(p)
        \/ GetRange(p)
        \/ GetLookup(p)
        \/ HandlePut(p)
        \/ PutCopySet(p)
        \/ PutStore(p)
        \/ HandleOther(p)
        \/ ConfigGetLoad(p)
        \/ ConfigGetReturn(p)
        \/ ProcReturn(p)

\* --------------------------------------------------------------------- New
\* fmt.Sprintf("http://%s:%d/evcrest/v1.0/%s/", host, port, cache)
urlprefix(host, port, cache) ==
    <<"http://", host, ":", port, "/evcrest/v1.0/", cache, "/">>

\* variant: one Handler per backend target, found again by a later New
NewHandler_perTarget(hs, host, port, cache) ==
    IF \E a \in 1..Len(hs) : hs[a].urlprefix = urlprefix(host, port, cache)
    THEN [handlers |-> hs,
          singleton |-> CHOOSE a \in 1..Len(hs) :
                            hs[a].urlprefix = urlprefix(host, port, cache)]
    ELSE [handlers |-> Append(hs, [urlprefix |-> urlprefix(host, port, cache),
                                   client |-> Len(hs) + 1]),
          singleton |-> Len(hs) + 1]

\* singleton := &Handler{...}: a Handler at a new address; its http.Client
\* is a field of the struct, so it lives at that address
NewHandler(hs, host, port, cache) ==
    [handlers |-> Append(hs, [urlprefix |-> urlprefix(host, port, cache),
                              client |-> Len(hs) + 1]),
     singleton |-> Len(hs) + 1]

\* variant: the constructor function makes a Handler for every connection
HandlerConst_fresh(hs, singleton) ==
    [handlers |-> Append(hs, [hs[singleton] EXCEPT !.client = Len(hs) + 1]),
     handler |-> Len(hs) + 1, err |-> Nil]

\* func() (handlers.Handler, error) { return singleton, nil }
HandlerConst(hs, singleton) ==
    [handlers |-> hs, handler |-> singleton, err |-> Nil]

\* New(host, port, cache)
New ==
    \E host \in Hosts, port \in Ports, cache \in Caches :
        /\ Len(factories) < MaxNew
        /\ LET r == NewHandler(handlers, host, port, cache)
           IN  /\ handlers' = r.handlers
               /\ factories' = Append(factories, r.singleton)
        /\ UNCHANGED <<conf, conns, closed, handlerVars, storeVars>>

\* the framework calls a constructor function for a new connection
Connect ==
    \E f \in 1..Len(factories) :
        /\ Len(conns) < MaxConns
        /\ LET r == HandlerConst(handlers, factories[f])
           IN  /\ handlers' = r.handlers
               /\ conns' = Append(conns, [factory |-> f,
                                          handler |-> r.handler,
                                          err |-> r.err])
        /\ UNCHANGED <<conf, factories, closed, handlerVars, storeVars>>

FactoryNext == New \/ Connect

\* ------------------------------------------------------------------- Close
\* variant: Close releases the http.Client of the Handler
HandlerClose_release(hs, h) ==
    [handlers |-> [hs EXCEPT ![h].client = 0], err |-> Nil]

\* func (h *Handler) Close() error { return nil }
HandlerClose(hs, h) == [handlers |-> hs, err |-> Nil]

\* a connection of the framework calls Close on its handler, at any time
Close ==
    \E k \in 1..Len(conns) :
        /\ Len(closed) < MaxCloses
        /\ LET r == HandlerClose(handlers, conns[k].handler)
           IN  /\ handlers' = r.handlers
               /\ closed' = Append(closed, [conn |-> k, err |-> r.err])
        /\ UNCHANGED <<conf, factories, conns, handlerVars, storeVars>>

\* ---------------------------------------------------------- Set and Delete
\* Handler.Set / Handler.Delete up to the first loop test
SyncCall(c) ==
    /\ Idle
    /\ Begin(c)
    /\ dataOut' = "none"
    /\ errorOut' = "none"
    /\ IF NewRequestFails(c.Key)
       THEN /\ pc' = "done"
            /\ ret' = ErrNewRequest
            /\ tries' = 0
       ELSE /\ pc' = "try"
            /\ ret' = "none"
            /\ tries' = configGet(conf, NumTriesConfigName, DefaultNumTries)
    /\ UNCHANGED <<conf, server>>
    /\ UNCHANGED <<storeVars, factoryVars>>

Set ==
    \E key \in StoredKeys \cup {BadKey}, data \in Payloads :
        SyncCall([NoCmd EXCEPT !.op = "Set", !.Key = key, !.Data = data,
                               !.Exptime = 30])

Delete ==
    \E key \in StoredKeys \cup {BadKey} :
        SyncCall([NoCmd EXCEPT !.op = "Delete", !.Key = key])

\* one iteration of the loop of Set (method PUT) or Delete (method DELETE),
\* client.Do having one of the outcomes outs
SyncTryOn(op, method, ttl, reqBody, outs) ==
    /\ pc = "try"
    /\ cmd.op = op
    /\ LoopTest(i, tries)
    /\ slept' = slept \o retryDelay(conf, i)
    /\ req' = [method |-> method, key |-> cmd.Key, ttl |-> ttl,
               body |-> reqBody]
    /\ numReqs' = numReqs + 1
    /\ \E out \in outs :
         /\ server' = out.server
         /\ IF out.err # Nil
            THEN /\ res' = [NoRes EXCEPT !.doErr = out.err]
                 /\ ret' = DoErrSurfaced(out.err)
                 /\ pc' = "done"
                 /\ UNCHANGED <<i, logged, unclosed>>
            ELSE \E readErr \in Discard(out.body) :
                 LET r == [doErr |-> Nil, code |-> out.code,
                           body |-> out.body, data |-> <<>>,
                           readErr |-> readErr]
                     class == IF op = "Set" THEN SetClassify(out.code)
                                            ELSE DeleteClassify(out.code)
                 IN  IF readErr # Nil
                     THEN /\ res' = r
                          /\ ret' = readErr
                          /\ pc' = "done"
                          /\ unclosed' = unclosed + 1
                          /\ UNCHANGED <<i, logged>>
                     ELSE /\ unclosed' = unclosed
                          /\ CASE class = "success" ->
                                    /\ res' = r
                                    /\ ret' = Nil
                                    /\ pc' = "done"
                                    /\ UNCHANGED <<i, logged>>
                               [] class = "terminal" ->
                                    /\ res' = r
                                    /\ ret' = ErrInternal
                                    /\ pc' = "done"
                                    /\ UNCHANGED <<i, logged>>
                               [] OTHER ->
                                    /\ res' = NoRes
                                    /\ logged' = out.code
                                    /\ i' = i + 1
                                    /\ UNCHANGED <<ret, pc>>
    /\ UNCHANGED <<conf, cmd, idx, tries, pending, dataOut, errorOut,
                   dataRecv, errRecv, consData, consErr>>
    /\ UNCHANGED <<storeVars, factoryVars>>

SyncTry(op, method, ttl, reqBody) ==
    SyncTryOn(op, method, ttl, reqBody,
              Do(server, method, cmd.Key, reqBody))

SetTry == SyncTry("Set", "PUT", <<cmd.Exptime>>, RequestBody(cmd.Data, i))

DeleteTry == SyncTry("Delete", "DELETE", <<>>, <<>>)

\* Set and Delete against the server of the tests started with forcecode 0
SetServed ==
    \E key \in StoredKeys \cup {BadKey}, data \in SetPayloads :
        SyncCall([NoCmd EXCEPT !.op = "Set", !.Key = key, !.Data = data,
                               !.Exptime = 30])

SyncTryServed(op, method, ttl, reqBody) ==
    SyncTryOn(op, method, ttl, reqBody,
              DoServed(server, method, cmd.Key, reqBody))

SetTryServed ==
    SyncTryServed("Set", "PUT", <<cmd.Exptime>>, RequestBody(cmd.Data, i))

DeleteTryServed == SyncTryServed("Delete", "DELETE", <<>>, <<>>)

\* the loop of Set or Delete ends without a resolving answer
SyncExhausted ==
    /\ pc = "try"
    /\ cmd.op \in {"Set", "Delete"}
    /\ ~LoopTest(i, tries)
    /\ ret' = ErrInternal
    /\ pc' = "done"
    /\ UNCHANGED <<conf, server, cmd, idx, i, tries, pending, dataOut,
                   errorOut, dataRecv, errRecv, consData, consErr, req, res,
                   logged, numReqs, slept, unclosed>>
    /\ UNCHANGED <<storeVars, factoryVars>>

\* ----------------------------------------------------- unsupported operations
\* variant: the operation starts as Set and Delete do
NotImplemented_started(c) == SyncCall(c)

\* Add, Replace, Append, Prepend, GAT, Touch: return common.ErrUnknownCmd
NotImplemented(c) ==
    /\ Idle
    /\ Begin(c)
    /\ pc' = "done"
    /\ ret' = ErrUnknownCmd
    /\ tries' = 0
    /\ dataOut' = "none"
    /\ errorOut' = "none"
    /\ UNCHANGED <<conf, server>>
    /\ UNCHANGED <<storeVars, factoryVars>>

Add ==
    \E key \in StoredKeys \cup {BadKey}, data \in Payloads :
        NotImplemented([NoCmd EXCEPT !.op = "Add", !.Key = key,
                                     !.Data = data, !.Exptime = 30])

Replace ==
    \E key \in StoredKeys \cup {BadKey}, data \in Payloads :
        NotImplemented([NoCmd EXCEPT !.op = "Replace", !.Key = key,
                                     !.Data = data, !.Exptime = 30])

\* Handler.Append (Append is the name of an operator on sequences)
HandlerAppend ==
    \E key \in StoredKeys \cup {BadKey}, data \in Payloads :
        NotImplemented([NoCmd EXCEPT !.op = "Append", !.Key = key,
                                     !.Data = data, !.Exptime = 30])

Prepend ==
    \E key \in StoredKeys \cup {BadKey}, data \in Payloads :
        NotImplemented([NoCmd EXCEPT !.op = "Prepend", !.Key = key,
                                     !.Data = data, !.Exptime = 30])

GAT ==
    \E key \in StoredKeys \cup {BadKey} :
        NotImplemented([NoCmd EXCEPT !.op = "GAT", !.Key = key,
                                     !.Exptime = 30])

Touch ==
    \E key \in StoredKeys \cup {BadKey} :
        NotImplemented([NoCmd EXCEPT !.op = "Touch", !.Key = key,
                                     !.Exptime = 30])

\* variant: GetE returns a result channel that it has made and closed
GetEChannels_closedData == [dataOut |-> "closed", errorOut |-> "buffered"]

\* errchan := make(chan error, 1); errchan <- common.ErrUnknownCmd;
\* return nil, errchan
GetEChannels == [dataOut |-> "nil", errorOut |-> "buffered"]

\* Handler.GetE: a nil result channel, and an error channel of capacity 1
\* that holds common.ErrUnknownCmd and is never closed
GetE ==
    \E keys \in SeqsUpTo(Keys, MaxKeys) :
        /\ Idle
        /\ cmd' = [NoCmd EXCEPT !.op = "GetE", !.Keys = keys,
                     !.Opaques = [j \in 1..Len(keys) |-> EntryAt(0, j).Opaque],
                     !.Quiet = [j \in 1..Len(keys) |-> EntryAt(0, j).Quiet]]
        /\ pending' = [NoPending EXCEPT !.err = ErrUnknownCmd]
        /\ dataOut' = GetEChannels.dataOut
        /\ errorOut' = GetEChannels.errorOut
        /\ pc' = "done"
        /\ ret' = "none"
        /\ UNCHANGED <<conf, server, idx, i, tries, dataRecv, errRecv,
                       consData, consErr, req, res, logged, numReqs, slept,
                       unclosed>>
        /\ UNCHANGED <<storeVars, factoryVars>>

\* the caller of GetE receives the buffered error
RecvErrBuffered ==
    /\ errorOut = "buffered"
    /\ errRecv' = Append(errRecv, pending.err)
    /\ pending' = NoPending
    /\ errorOut' = "open"
    /\ UNCHANGED <<conf, server, cmd, pc, idx, i, tries, dataOut, dataRecv,
                   consData, consErr, ret, req, res, logged, numReqs, slept,
                   unclosed>>
    /\ UNCHANGED <<storeVars, factoryVars>>

\* --------------------------------------------------------------------- Get
\* Handler.Get: make both channels and start realHandleGet
GetOf(keyLists) ==
    \E keys \in keyLists :
      \E p \in {0, 1} :
        /\ Idle
        /\ Begin([NoCmd EXCEPT !.op = "Get", !.Keys = keys,
                     !.Opaques = [j \in 1..Len(keys) |-> EntryAt(p, j).Opaque],
                     !.Quiet = [j \in 1..Len(keys) |-> EntryAt(p, j).Quiet]])
        /\ dataOut' = "open"
        /\ errorOut' = "open"
        /\ pc' = "outer"
        /\ ret' = "none"
        /\ tries' = 0
        /\ UNCHANGED <<conf, server>>
        /\ UNCHANGED <<storeVars, factoryVars>>

Get == GetOf(SeqsUpTo(Keys, MaxKeys))

\* Get of at most one key
GetOne == GetOf(SeqsUpTo(GoodKeys, 1))

\* realHandleGet: head of the loop over the keys, up to the first loop test
\* of the inner loop
GetNextKey ==
    /\ pc = "outer"
    /\ IF idx > Len(cmd.Keys)
       THEN /\ pc' = "close_data"
            /\ UNCHANGED <<pending, tries, i, logged, slept>>
       ELSE IF NewRequestFails(RangeKey(cmd.Keys, idx))
       THEN /\ pc' = "send_err"
            /\ pending' = [pending EXCEPT !.err = ErrNewRequest]
            /\ UNCHANGED <<tries, i, logged, slept>>
       ELSE /\ pc' = "try"
            /\ tries' = configGet(conf, NumTriesConfigName, DefaultNumTries)
            /\ i' = 0
            /\ logged' = 0
            /\ slept' = <<>>
            /\ UNCHANGED pending
    /\ UNCHANGED <<conf, server, cmd, idx, dataOut, errorOut, dataRecv,
                   errRecv, consData, consErr, ret, req, res, numReqs,
                   unclosed>>
    /\ UNCHANGED <<storeVars, factoryVars>>

\* realHandleGet: one iteration of the inner loop, up to the channel send
GetTry ==
    /\ pc = "try"
    /\ cmd.op = "Get"
    /\ LoopTest(i, tries)
    /\ slept' = slept \o retryDelay(conf, i)
    /\ req' = [method |-> "GET", key |-> RangeKey(cmd.Keys, idx),
               ttl |-> <<>>, body |-> <<>>]
    /\ numReqs' = numReqs + 1
    /\ \E out \in Do(server, "GET", RangeKey(cmd.Keys, idx), <<>>) :
         /\ server' = out.server
         /\ IF out.err # Nil
            THEN /\ res' = [NoRes EXCEPT !.doErr = out.err]
                 /\ pending' = [pending EXCEPT !.err = DoErrSurfaced(out.err)]
                 /\ pc' = "send_err"
                 /\ UNCHANGED <<i, logged>>
            ELSE \E rd \in ReadAll(out.body) :
                 LET r == [doErr |-> Nil, code |-> out.code,
                           body |-> out.body, data |-> rd.data,
                           readErr |-> rd.err]
                     class == GetClassify(out.code)
                 IN  CASE class = "hit" ->
                            /\ res' = r
                            /\ pending' = [pending EXCEPT !.data =
                                  GetResponse(FALSE, cmd.Quiet[idx],
                                      cmd.Opaques[idx],
                                      RangeKey(cmd.Keys, idx), rd.data)]
                            /\ pc' = "send_data"
                            /\ UNCHANGED <<i, logged>>
                       [] class = "miss" ->
                            /\ res' = r
                            /\ pending' = [pending EXCEPT !.data =
                                  GetResponse(TRUE, cmd.Quiet[idx],
                                      cmd.Opaques[idx],
                                      RangeKey(cmd.Keys, idx), <<>>)]
                            /\ pc' = "send_data"
                            /\ UNCHANGED <<i, logged>>
                       [] class = "terminal" ->
                            /\ res' = r
                            /\ pending' = [pending EXCEPT !.err = ErrInternal]
                            /\ pc' = "send_err"
                            /\ UNCHANGED <<i, logged>>
                       [] OTHER ->
                            /\ res' = NoRes
                            /\ logged' = out.code
                            /\ i' = i + 1
                            /\ UNCHANGED <<pending, pc>>
    /\ UNCHANGED <<conf, cmd, idx, tries, dataOut, errorOut, dataRecv,
                   errRecv, consData, consErr, ret, unclosed>>
    /\ UNCHANGED <<storeVars, factoryVars>>

\* realHandleGet: the inner loop ends without a resolving answer
GetExhausted ==
    /\ pc = "try"
    /\ cmd.op = "Get"
    /\ ~LoopTest(i, tries)
    /\ pending' = [pending EXCEPT !.err = ErrInternal]
    /\ pc' = "send_err"
    /\ UNCHANGED <<conf, server, cmd, idx, i, tries, dataOut, errorOut,
                   dataRecv, errRecv, consData, consErr, ret, req, res,
                   logged, numReqs, slept, unclosed>>
    /\ UNCHANGED <<storeVars, factoryVars>>

\* the locals of the loop body (req, tries, i, res, data, err) go out of scope
LoopLocalsDie ==
    /\ req' = NoReq
    /\ res' = NoRes
    /\ tries' = 0
    /\ i' = 0
    /\ logged' = 0
    /\ slept' = <<>>

\* dataOut <- response meets the consumer's receive; continue outer
RecvData ==
    /\ pc = "send_data"
    /\ dataRecv' = Append(dataRecv, pending.data)
    /\ pending' = NoPending
    /\ idx' = idx + 1
    /\ pc' = "outer"
    /\ LoopLocalsDie
    /\ UNCHANGED <<conf, server, cmd, dataOut, errorOut, errRecv, consData,
                   consErr, ret, numReqs, unclosed>>
    /\ UNCHANGED <<storeVars, factoryVars>>

\* errorOut <- err meets the consumer's receive; return
RecvErr ==
    /\ pc = "send_err"
    /\ errRecv' = Append(errRecv, pending.err)
    /\ pending' = NoPending
    /\ pc' = AfterErrSend
    /\ LoopLocalsDie
    /\ UNCHANGED <<conf, server, cmd, idx, dataOut, errorOut, dataRecv,
                   consData, consErr, ret, numReqs, unclosed>>
    /\ UNCHANGED <<storeVars, factoryVars>>

\* the deferred close(dataOut), which runs first
CloseData ==
    /\ pc = "close_data"
    /\ dataOut' = "closed"
    /\ pc' = "close_err"
    /\ UNCHANGED <<conf, server, cmd, idx, i, tries, pending, errorOut,
                   dataRecv, errRecv, consData, consErr, ret, req, res,
                   logged, numReqs, slept, unclosed>>
    /\ UNCHANGED <<storeVars, factoryVars>>

\* the deferred close(errorOut), which runs last
CloseErr ==
    /\ pc = "close_err"
    /\ errorOut' = "closed"
    /\ pc' = "done"
    /\ UNCHANGED <<conf, server, cmd, idx, i, tries, pending, dataOut,
                   dataRecv, errRecv, consData, consErr, ret, req, res,
                   logged, numReqs, slept, unclosed>>
    /\ UNCHANGED <<storeVars, factoryVars>>

\* the consumer's receive on the closed dataOut
RecvDataClosed ==
    /\ dataOut = "closed"
    /\ ~consData
    /\ consData' = TRUE
    /\ UNCHANGED <<conf, server, cmd, pc, idx, i, tries, pending, dataOut,
                   errorOut, dataRecv, errRecv, consErr, ret, req, res,
                   logged, numReqs, slept, unclosed>>
    /\ UNCHANGED <<storeVars, factoryVars>>

\* the consumer's receive on the closed errorOut
RecvErrClosed ==
    /\ errorOut = "closed"
    /\ ~consErr
    /\ consErr' = TRUE
    /\ UNCHANGED <<conf, server, cmd, pc, idx, i, tries, pending, dataOut,
                   errorOut, dataRecv, errRecv, consData, ret, req, res,
                   logged, numReqs, slept, unclosed>>
    /\ UNCHANGED <<storeVars, factoryVars>>

\* variant: the channel has a buffer, a send completes with no receiver
SendCompletes_buffered(receiving) == TRUE

\* errorOut := make(chan error): no buffer, a send completes when a receiver
\* is at the channel
SendCompletes(receiving) == receiving

\* a caller that first receives from dataOut until it is closed (RecvData,
\* RecvDataClosed) and only then from errorOut: its receive on errorOut,
\* which gets the error realHandleGet is sending or finds the channel closed
SeqRecvErr ==
    IF pc = "send_err"
    THEN SendCompletes(consData) /\ RecvErr
    ELSE consData /\ RecvErrClosed

\* the caller is through with the operation: Set / Delete has returned, or
\* the consumer of Get has seen both channels closed
Finish ==
    /\ pc = "done"
    /\ cmd.op = "Get" => consData /\ consErr
    /\ pc' = "idle"
    /\ Begin(NoCmd)
    /\ tries' = 0
    /\ ret' = "none"
    /\ dataOut' = "none"
    /\ errorOut' = "none"
    /\ UNCHANGED <<conf, server>>
    /\ UNCHANGED <<storeVars, factoryVars>>

\* ------------------------------------------------------------ specification
Next ==
    \/ PutNumTries
    \/ Set
    \/ SetTry
    \/ Delete
    \/ DeleteTry
    \/ SyncExhausted
    \/ Add
    \/ Replace
    \/ HandlerAppend
    \/ Prepend
    \/ GAT
    \/ Touch
    \/ GetE
    \/ RecvErrBuffered
    \/ Get
    \/ GetNextKey
    \/ GetTry
    \/ GetExhausted
    \/ RecvData
    \/ RecvErr
    \/ CloseData
    \/ CloseErr
    \/ RecvDataClosed
    \/ RecvErrClosed
    \/ Finish

Spec == Init /\ [][Next]_vars

\* the goroutine of realHandleGet is scheduled
ProducerRuns ==
    /\ WF_vars(GetNextKey)
    /\ WF_vars(GetExhausted)
    /\ WF_vars(CloseData)
    /\ WF_vars(CloseErr)

\* every client.Do call returns
CallsReturn == WF_vars(GetTry)

\* the caller of Get receives from whichever channel is ready until it has
\* seen both closed
ConsumerDrains ==
    /\ WF_vars(RecvData)
    /\ WF_vars(RecvErr)
    /\ WF_vars(RecvDataClosed)
    /\ WF_vars(RecvErrClosed)

LiveSpec == Spec /\ ProducerRuns /\ CallsReturn /\ ConsumerDrains

\* New and the constructor functions it returns
ServedNext ==
    \/ PutNumTries
    \/ SetServed
    \/ SetTryServed
    \/ Delete
    \/ DeleteTryServed
    \/ SyncExhausted
    \/ Finish

ServedSpec == Init /\ [][ServedNext]_vars

\* New has been called once and the constructor function it returned twice:
\* two connections of the framework hold the handler
CloseInit ==
    /\ conf = EmptyConf
    /\ server \in UNION {[D -> Payloads] : D \in SUBSET StoredKeys}
    /\ HandlerInit
    /\ heap = <<EmptyConf>>
    /\ holder = 1
    /\ procs = [p \in Procs |-> NoProc]
    /\ LET n == NewHandler(<<>>, "h1", 8080, "evcache")
           c == HandlerConst(n.handlers, n.singleton)
           conn == [factory |-> 1, handler |-> c.handler, err |-> c.err]
       IN  /\ handlers = c.handlers
           /\ factories = <<n.singleton>>
           /\ conns = <<conn, conn>>
    /\ closed = <<>>

PolicyNext ==
    \/ PutNumTries
    \/ PutMultiplier
    \/ Set
    \/ SetTry
    \/ Delete
    \/ DeleteTry
    \/ SyncExhausted
    \/ GetOne
    \/ GetNextKey
    \/ GetTry
    \/ GetExhausted
    \/ RecvData
    \/ RecvErr
    \/ CloseData
    \/ CloseErr
    \/ RecvDataClosed
    \/ RecvErrClosed
    \/ Finish

PolicySpec == Init /\ [][PolicyNext]_vars

\* the caller is through with Get or GetE once it has seen both channels
\* closed
FinishDrained == consData /\ consErr /\ Finish

DrainNext ==
    \/ GetE
    \/ RecvErrBuffered
    \/ GetOne
    \/ GetNextKey
    \/ GetTry
    \/ GetExhausted
    \/ RecvData
    \/ RecvErr
    \/ CloseData
    \/ CloseErr
    \/ RecvDataClosed
    \/ RecvErrClosed
    \/ FinishDrained

DrainSpec == Init /\ [][DrainNext]_vars

SeqNext ==
    \/ Get
    \/ GetNextKey
    \/ GetTry
    \/ GetExhausted
    \/ RecvData
    \/ CloseData
    \/ CloseErr
    \/ RecvDataClosed
    \/ SeqRecvErr
    \/ Finish

SeqSpec == Init /\ [][SeqNext]_vars

CloseNext ==
    \/ Close
    \/ Set
    \/ SetTry
    \/ Delete
    \/ DeleteTry
    \/ SyncExhausted
    \/ GetOne
    \/ GetNextKey
    \/ GetTry
    \/ GetExhausted
    \/ RecvData
    \/ RecvErr
    \/ CloseData
    \/ CloseErr
    \/ RecvDataClosed
    \/ RecvErrClosed
    \/ Finish

CloseSpec == CloseInit /\ [][CloseNext]_vars

FactorySpec == Init /\ [][FactoryNext]_vars

\* the config package under two concurrent callers
ConfSpec == ConfInit /\ [][ConfNext]_vars

\* ================================================================== claims
\* a step of the operation in progress (not the start of another one)
SameOp == cmd' = cmd

\* a step in which the consumer receives a result
Emits == SameOp /\ Len(dataRecv') = Len(dataRecv) + 1

IsPrefix(s, t) == Len(s) <= Len(t) /\ SubSeq(t, 1, Len(s)) = s

\* C1: every result Get emits is, when the resolving status of its key is
\* 200, a hit whose payload equals the response body, and, when it is 404, a
\* miss without payload; both echo the opaque and the quiet flag found at the
\* key's index in the request.
C1_HitMissEcho ==
    [][Emits =>
         LET r == dataRecv'[Len(dataRecv')] IN
           /\ res.code \in {200, 404}
           /\ r.Opaque = cmd.Opaques[idx]
           /\ r.Quiet = cmd.Quiet[idx]
           /\ res.code = 200 => ~r.Miss /\ r.Data = res.body
           /\ res.code = 404 => r.Miss /\ r.Data = <<>>]_vars

\* C1, the part that holds whether or not the body could be read: the payload
\* of a hit is what ReadAll returned, and it is the response body whenever
\* ReadAll returned no error.
C1_HitMissEchoOfRead ==
    [][Emits =>
         LET r == dataRecv'[Len(dataRecv')] IN
           /\ res.code \in {200, 404}
           /\ r.Opaque = cmd.Opaques[idx]
           /\ r.Quiet = cmd.Quiet[idx]
           /\ res.code = 200 => ~r.Miss /\ r.Data = res.data
           /\ (res.code = 200 /\ res.readErr = Nil) => r.Data = res.body
           /\ res.code = 404 => r.Miss /\ r.Data = <<>>]_vars

\* C2: the results received so far from one Get are, in order, the results
\* for a prefix of the request's keys: none skipped, repeated or reordered.
C2_ResultsArePrefix ==
    cmd.op = "Get" =>
        /\ Len(dataRecv) <= Len(cmd.Keys)
        /\ \A j \in 1..Len(dataRecv) : dataRecv[j].Key = cmd.Keys[j]
        /\ pc \in {"outer", "try", "send_data", "send_err"} =>
               Len(dataRecv) = idx - 1

C2_Witness ==
    /\ cmd.op = "Get"
    /\ Len(dataRecv) = 2
    /\ cmd.Keys[1] # cmd.Keys[2]

\* ------------------------------------------------ vocabulary of the claims
SyncOp == cmd.op \in {"Set", "Delete"}

\* Set, Delete, or a Get of one key
SingleKeyOp == SyncOp \/ (cmd.op = "Get" /\ Len(cmd.Keys) = 1)

\* the current try got a response
Answered == res.doErr = Nil /\ res.code # 0

\* the current try got a response and the operation looked at its status:
\* Set and Delete return a failed drain of the body before they do
Classified == Answered /\ (SyncOp => res.readErr = Nil)

\* the current try failed in client.Do
TransportFailed == res.doErr # Nil

\* the statuses that resolve an operation with success
SuccessCode(op, code) ==
    IF op = "Get" THEN code = 200 ELSE code >= 200 /\ code <= 299

\* the statuses that end an operation at once with the internal error
TerminalCode(op, code) ==
    CASE op = "Get" -> code = 500
      [] op = "Set" -> code \in {400, 500}
      [] op = "Delete" -> code = 500
      [] OTHER -> FALSE

\* the statuses that are tried again
RetryableCode(op, code) ==
    /\ ~SuccessCode(op, code)
    /\ ~TerminalCode(op, code)
    /\ ~(op = "Get" /\ code = 404)

Max0(n) == IF n > 0 THEN n ELSE 0

\* the value of numTries in force in snapshot c
ConfiguredTries(c) ==
    IF "numTries" \in DOMAIN c THEN c["numTries"] ELSE 4

\* the first try of the operation was answered 500
First500 == numReqs = 1 /\ Classified /\ res.code = 500

TriesInScope == SyncOp \/ (cmd.op = "Get" /\ pc \in {"try", "send_data", "send_err"})

\* the operation has run out of tries without a resolving answer
GaveUp ==
    /\ res = NoRes
    /\ \/ SyncOp /\ pc = "done" /\ ret # ErrNewRequest
       \/ cmd.op = "Get" /\ pc = "send_err" /\ pending.err # ErrNewRequest

GetFailed == cmd.op = "Get" /\ (pc = "send_err" \/ errRecv # <<>>)

\* the key at hand ended in a terminal outcome: a failed client.Do, an
\* answer of 500, or a used-up try budget
TerminalOutcome ==
    /\ cmd.op = "Get"
    /\ \/ TransportFailed
       \/ Answered /\ res.code = 500
       \/ pc = "try" /\ i >= tries

\* C6: in a Get, a key that ends in a terminal outcome (a transport failure,
\* an answer of 500, a used-up try budget) takes realHandleGet to the send of
\* the error; from then on no HTTP call is made, the backend is not touched,
\* the loop moves to no later key and no result is emitted; the results
\* received so far are never taken back.
C6_StopAtTerminalKey ==
    [][/\ (TerminalOutcome /\ SameOp /\ (pc' # pc \/ numReqs' # numReqs)) =>
              /\ numReqs' = numReqs
              /\ pending.err # Nil \/ pc' = "send_err"
              /\ GetFailed'
       /\ (GetFailed /\ SameOp) =>
              /\ GetFailed'
              /\ numReqs' = numReqs
              /\ server' = server
              /\ idx' = idx
              /\ dataRecv' = dataRecv
              /\ pc' \notin {"outer", "try", "send_data"}
       /\ (cmd.op = "Get" /\ SameOp) => IsPrefix(dataRecv, dataRecv')
      ]_vars

C6_Witness ==
    /\ cmd.op = "Get"
    /\ Len(cmd.Keys) = 2
    /\ cmd.Keys[2] \in GoodKeys
    /\ idx = 1
    /\ errRecv = <<ErrInternal>>
    /\ numReqs = 1
    /\ pc = "done"

\* what holds of the two channels of a Get in every state
ChannelsInOrder ==
    cmd.op = "Get" =>
        /\ Len(errRecv) <= 1
        /\ errRecv # <<>> => pc \in {"close_data", "close_err", "done"}
        /\ pc \in {"send_data", "send_err"} =>
               dataOut = "open" /\ errorOut = "open"
        /\ pc = "done" => dataOut = "closed" /\ errorOut = "closed"
        /\ (dataOut = "closed" \/ errorOut = "closed") =>
               /\ pc \in {"close_err", "done"}
               /\ errRecv # <<>> \/ Len(dataRecv) = Len(cmd.Keys)
        /\ Len(dataRecv) = Len(cmd.Keys) =>
               /\ errRecv = <<>>
               /\ pending.err = Nil
               /\ pc \in {"outer", "close_data", "close_err", "done"}

\* C7: the error channel of a Get carries at most one error; once the error
\* is received nothing more is sent on either channel; every item is
\* delivered while both channels are open; realHandleGet ends with both
\* channels closed, and closes them only after the error or after the result
\* of the last key; a Get whose keys are all resolved sends no error.
C7_OneErrorThenClose ==
    [][/\ ChannelsInOrder'
       /\ (cmd.op = "Get" /\ errRecv # <<>> /\ SameOp) =>
              /\ errRecv' = errRecv
              /\ dataRecv' = dataRecv
              /\ pending' = NoPending
       /\ (cmd.op = "Get" /\ SameOp /\ errRecv' # errRecv) =>
              /\ errRecv' = <<pending.err>>
              /\ dataOut = "open" /\ errorOut = "open"
      ]_vars

C7_Witness ==
    /\ cmd.op = "Get"
    /\ pc = "done"
    /\ Len(errRecv) = 1
    /\ Len(dataRecv) = 1
    /\ dataOut = "closed"
    /\ errorOut = "closed"

\* C9: when client.Do fails in a try of Get, Set or Delete, the operation
\* ends with that very error: Set and Delete return it, Get sends it on the
\* error channel and the consumer receives it; no HTTP call follows,
\* whatever is left of the try budget.
C9_TransportErrorVerbatim ==
    [][/\ TransportFailed' =>
              /\ res'.doErr \in TransportErrs
              /\ SyncOp' => pc' = "done" /\ ret' = res'.doErr
              /\ cmd'.op = "Get" =>
                     pc' = "send_err" /\ pending'.err = res'.doErr
       /\ (TransportFailed /\ SameOp) =>
              /\ numReqs' = numReqs
              /\ server' = server
              /\ SyncOp => ret' = ret /\ pc' = "done"
       /\ (TransportFailed /\ SameOp /\ cmd.op = "Get" /\ pc' # pc) =>
              errRecv' = <<res.doErr>>
       /\ (cmd.op = "Get" /\ errRecv # <<>> /\ SameOp) =>
              numReqs' = numReqs /\ errRecv' = errRecv
      ]_vars

C9_Witness ==
    /\ cmd.op = "Set"
    /\ TransportFailed
    /\ ret = "errReset"
    /\ i = 1
    /\ numReqs = 2
    /\ tries = DefaultNumTries

GetTerminated ==
    /\ cmd.op = "Get"
    /\ pc = "done"
    /\ dataOut = "closed"
    /\ errorOut = "closed"

\* C8: when the caller of Get keeps receiving from both channels until both
\* are closed and every HTTP call returns, realHandleGet terminates and both
\* channels get closed: no Get stays blocked in a send for ever.
C8_ProducerTerminates == (cmd.op = "Get") ~> GetTerminated

C8_Witness ==
    /\ GetTerminated
    /\ consData
    /\ consErr
    /\ Len(cmd.Keys) = 2
    /\ Len(dataRecv) = 2
    /\ errRecv = <<>>

UnsupportedOps ==
    {"Add", "Replace", "Append", "Prepend", "GAT", "Touch", "GetE"}

\* C12: Add, Replace, Append, Prepend, GAT, Touch and GetE end in the step
\* that calls them, whatever the input, the configuration and the backend
\* hold; they make no HTTP call, leave the backend alone and read nothing
\* from the config store; the six return ErrUnknownCmd, and GetE hands it
\* over as the one value waiting in the error channel it returns.
C12_UnsupportedOps ==
    [][cmd'.op \in UnsupportedOps =>
         /\ pc' = "done"
         /\ cmd' # cmd => pc = "idle" /\ conf' = conf
         /\ numReqs' = 0
         /\ server' = server
         /\ tries' = 0 /\ slept' = <<>> /\ req' = NoReq
         /\ dataRecv' = <<>>
         /\ cmd'.op # "GetE" =>
                ret' = ErrUnknownCmd /\ errorOut' = "none" /\ errRecv' = <<>>
         /\ cmd'.op = "GetE" =>
                \/ /\ errorOut' = "buffered"
                   /\ pending'.err = ErrUnknownCmd
                   /\ errRecv' = <<>>
                \/ /\ errorOut' = "open"
                   /\ pending' = NoPending
                   /\ errRecv' = <<ErrUnknownCmd>>
      ]_vars

C12_Witness ==
    /\ cmd.op = "GetE"
    /\ Len(cmd.Keys) = 2
    /\ errRecv = <<ErrUnknownCmd>>
    /\ NumTriesConfigName \in DOMAIN conf
    /\ server # <<>>

\* C13: every call of the constructor function returned by one call of New
\* yields the Handler that New made, and no error; the connections made
\* from one constructor function therefore share one Handler and with it
\* one http.Client.
C13_FactorySingleton ==
    /\ \A a \in 1..Len(conns) :
          /\ conns[a].err = Nil
          /\ conns[a].handler = factories[conns[a].factory]
    /\ \A a, b \in 1..Len(conns) :
          conns[a].factory = conns[b].factory =>
              /\ conns[a].handler = conns[b].handler
              /\ handlers[conns[a].handler].client
                     = handlers[conns[b].handler].client

C13_Witness ==
    /\ Len(factories) = 2
    /\ Len(conns) = 4
    /\ conns[1].factory = 1
    /\ conns[2].factory = 2
    /\ conns[3].factory = 1
    /\ conns[4].factory = 1

\* the two constructor functions were made for the same backend target
SameTarget(f, g) ==
    handlers[factories[f]].urlprefix = handlers[factories[g]].urlprefix

\* C14 as stated: two calls of New with the same host, port and cache yield
\* the same Handler.
C14_OneHandlerPerTarget ==
    \A f, g \in 1..Len(factories) :
        SameTarget(f, g) => factories[f] = factories[g]

\* C14 as amended: every call of New makes a Handler of its own, with an
\* http.Client of its own, also when host, port and cache are those of an
\* earlier call; a Handler is shared by the connections of one constructor
\* function and by no others.
C14_OneHandlerPerNew ==
    /\ Len(handlers) = Len(factories)
    /\ \A f, g \in 1..Len(factories) :
          f # g =>
              /\ factories[f] # factories[g]
              /\ handlers[factories[f]].client
                     # handlers[factories[g]].client
    /\ \A a, b \in 1..Len(conns) :
          conns[a].handler = conns[b].handler =>
              conns[a].factory = conns[b].factory

C14_Witness ==
    /\ Len(factories) = 2
    /\ SameTarget(1, 2)
    /\ Len(conns) = 2
    /\ conns[1].factory = 1
    /\ conns[2].factory = 2

\* p is a call of config.Get
IsConfigGet(r) == r.method = "Get"

\* C15: config.Get(name, fallback) returns what the snapshot that was
\* published when it loaded confHolder binds to name, and fallback when that
\* snapshot has no such name; the result is always an integer; the call
\* changes neither confHolder nor any map; and its two steps can be taken in
\* every state, whatever the writers are doing.
C15_ConfigGet ==
    [][\A p \in Procs :
         /\ procs[p].pc = "idle" => ENABLED ConfigGetLoad(p)
         /\ (IsConfigGet(procs[p]) /\ procs[p].pc = "lookup") =>
                ENABLED ConfigGetReturn(p)
         /\ (IsConfigGet(procs'[p]) /\ procs'[p] # procs[p]) =>
                /\ heap' = heap /\ holder' = holder /\ conf' = conf
                /\ procs'[p].pc = "lookup" =>
                       procs'[p].snap = heap[holder]
                /\ procs'[p].pc = "done" =>
                       /\ procs'[p].result \in Int
                       /\ LET r == procs[p]
                          IN  procs'[p].result =
                                 IF r.key \in DOMAIN r.snap
                                 THEN r.snap[r.key] ELSE r.v
      ]_vars

C15_Witness ==
    /\ IsConfigGet(procs["r1"])
    /\ procs["r1"].pc = "done"
    /\ procs["r1"].key = "foo"
    /\ procs["r1"].result = 4
    /\ Writing(procs["r2"])
    /\ procs["r2"].key = "foo"
    /\ procs["r2"].v = 0 - 1

\* the step is the confHolder.Store of the PUT p
Stores(p) == procs[p].pc = "copied" /\ procs'[p].pc = "done"

\* the integer printed in a line "name value\n"
LineValue(line) == Atoi(SubSeq(line, 3, Len(line) - 1))

\* C16: the Store of a PUT /config/<name> with integer body v that met no
\* other PUT between its Load and its Store publishes a snapshot that binds
\* name to v and every other name as the snapshot published before did; the
\* PUT answers 200 without a body; config.Get of name and GET /config/<name>
\* that load this snapshot return v.  Nothing but such a Store changes the
\* published snapshot.
C16_PutPublishesUpdate ==
    [][/\ \A p \in Procs :
            (Stores(p) /\ ~procs[p].overlap) =>
                LET old == heap[holder]
                    new == heap'[holder']
                    name == PathKey(procs[p].path)
                    v == Atoi(procs[p].body).v
                IN  /\ ~Atoi(procs[p].body).err
                    /\ old = procs[p].snap
                    /\ DOMAIN new = (DOMAIN old) \cup {name}
                    /\ new[name] = v
                    /\ \A k \in (DOMAIN old) \ {name} : new[k] = old[k]
                    /\ conf' = new
                    /\ Status(procs'[p].code) = 200
                    /\ procs'[p].out = <<>>
                    /\ \A f \in Fallbacks : configGet(new, name, f) = v
       /\ (holder' # holder \/ heap'[holder'] # heap[holder]) =>
              \E p \in Procs : Stores(p)
       /\ \A q \in Procs :
            (procs[q].method = "GET" /\ procs[q].pc = "lookup"
                 /\ procs'[q].pc = "done"
                 /\ procs[q].key \in DOMAIN procs[q].snap) =>
                /\ Status(procs'[q].code) = 200
                /\ procs'[q].out[1] = procs[q].key
                /\ ~LineValue(procs'[q].out).err
                /\ LineValue(procs'[q].out).v = procs[q].snap[procs[q].key]
      ]_vars

C16_Witness ==
    /\ procs["r1"].method = "PUT"
    /\ procs["r1"].pc = "done"
    /\ procs["r1"].c = holder
    /\ ~procs["r1"].overlap
    /\ procs["r1"].key = "foo"
    /\ DOMAIN heap[holder] = ConfNames
    /\ heap[holder][NumTriesConfigName] = 4
    /\ procs["r2"].method = "GET"
    /\ procs["r2"].pc = "done"
    /\ procs["r2"].out = <<"foo", " ", "-", "1", "\n">>

\* r is a reader of the store: GET /config, GET /config/<name>, config.Get
Reads(r) == r.method \in {"GET", "Get"}

\* C17: the map in confHolder is never changed after its Store; a reader
\* loads confHolder once, gets the snapshot published at that moment whole,
\* and every value it reads or prints afterwards comes from that snapshot,
\* also when writers copy, assign and store in between: GET /config prints
\* each pair of it exactly once, GET /config/<name> and config.Get look the
\* name up in it.
C17_SnapshotIsolation ==
    [][/\ heap'[holder'] = conf'
       /\ \A q \in Procs :
            LET r == procs[q]
                n == procs'[q]
            IN  /\ (Reads(n) /\ n.c # 0) => heap'[n.c] = n.snap
                /\ (r.pc = "idle" /\ Reads(n)) =>
                       /\ n.c = holder
                       /\ n.snap = conf
                       /\ (n.method = "GET" /\ NoKeyInPath(n.path)) =>
                              n.todo = DOMAIN n.snap /\ n.out = <<>>
                /\ (Reads(r) /\ r.pc # "done" /\ n # r) =>
                       n.snap = r.snap /\ n.c = r.c
                /\ (r.pc = "range" /\ n # r) =>
                       \E k \in r.todo :
                           /\ k \in DOMAIN r.snap
                           /\ n.out = r.out \o Fprintf(k, r.snap[k])
                           /\ n.todo = r.todo \ {k}
                /\ (n.method = "GET" /\ NoKeyInPath(n.path)) =>
                       (n.pc = "done" <=> n.todo = {})
                /\ (r.method = "GET" /\ r.pc = "lookup" /\ n # r) =>
                       IF r.key \in DOMAIN r.snap
                       THEN n.out = Fprintf(r.key, r.snap[r.key])
                            /\ Status(n.code) = 200
                       ELSE n.out = <<>> /\ Status(n.code) = 404
      ]_vars

C17_Witness ==
    /\ procs["r1"].method = "GET"
    /\ procs["r1"].pc = "range"
    /\ procs["r1"].out = <<NumTriesConfigName, " ", "4", "\n">>
    /\ procs["r1"].todo = {"foo"}
    /\ procs["r1"].snap["foo"] = 4
    /\ holder # procs["r1"].c
    /\ heap[holder]["foo"] = 0 - 1
    /\ Writing(procs["r2"])

\* the decimal texts of the integers from -20 to 20
DecimalTexts ==
    {FormatUint(n) : n \in 0..20} \cup {<<"-">> \o FormatUint(n) : n \in 1..20}

\* the step completes the call q
Completes(q) == procs[q].pc # "done" /\ procs'[q].pc = "done"

KeyCalls == i + (IF res # NoRes THEN 1 ELSE 0)

\* the largest try budget the config store can hand out
LargestBudget ==
    IF MaxConfTries > DefaultNumTries THEN MaxConfTries ELSE DefaultNumTries

\* the step makes an HTTP call
MakesCall == SameOp /\ numReqs' = numReqs + 1

\* the operation has read its try budget for the key at hand
BudgetRead ==
    /\ SyncOp => ret # ErrNewRequest
    /\ cmd.op = "Get" => ~(pc = "send_err" /\ pending.err = ErrNewRequest)

\* C19 as stated: one invocation of Get, Set or Delete, a Get of several
\* keys included, never makes more HTTP calls in total than the try budget
\* numTries it has read (a budget below zero taken as zero).
C19_AtMostNumTriesPerInvocation ==
    (TriesInScope /\ BudgetRead) => numReqs <= Max0(tries)

\* C19 as amended: the try budget bounds the HTTP calls per key, not per
\* invocation.  Set and Delete read numTries once and make at most
\* max(numTries, 0) calls; Get reads numTries anew for every key and makes
\* at most max(numTries, 0) calls for that key, each call made only while
\* fewer calls than the budget were made for the key, so that a Get of N
\* keys makes at most N times the largest budget calls in total.
C19_AtMostNumTriesPerKey ==
    [][/\ numReqs' # numReqs => (MakesCall \/ numReqs' = 0)
       /\ MakesCall =>
            /\ cmd.op \in {"Get", "Set", "Delete"}
            /\ tries' = tries
            /\ KeyCalls < tries
            /\ KeyCalls' = KeyCalls + 1
       /\ TriesInScope' => KeyCalls' <= Max0(tries')
       /\ SyncOp' => numReqs' = KeyCalls'
       /\ (cmd'.op = "Get" /\ TriesInScope') =>
            /\ numReqs' <= (idx' - 1) * LargestBudget + KeyCalls'
            /\ numReqs' >= KeyCalls'
       /\ (pc' = "try" /\ pc # "try") => tries' = ConfiguredTries(conf)
      ]_vars

\* a Get of two keys whose budget is one try per key has made two calls
C19_Witness ==
    /\ cmd.op = "Get"
    /\ Len(cmd.Keys) = 2
    /\ idx = 2
    /\ pc = "send_data"
    /\ tries = 1
    /\ ConfiguredTries(conf) = 1
    /\ KeyCalls = 1
    /\ numReqs = 2
    /\ Len(dataRecv) = 1

\* Set or Delete has returned nil
Succeeded(op) == cmd.op = op /\ pc = "done" /\ ret = Nil

\* C20: against a backend that handles the requests it does not answer 503,
\* after Set returns nil the backend holds the payload under the key, and
\* after Delete returns nil it holds nothing under the key, whether the
\* first try succeeded or up to numTries - 1 tries were answered 503 before;
\* every try of Set is a PUT with the ttl and the whole payload; a backend
\* that handles the first try gets that one request and no other.
C20_BackendHoldsWhatWasSet ==
    [][/\ Succeeded("Set")' =>
            /\ cmd'.Key \in DOMAIN server'
            /\ server'[cmd'.Key] = cmd'.Data
       /\ Succeeded("Delete")' => cmd'.Key \notin DOMAIN server'
       /\ (SyncOp' /\ ret' = Nil) =>
            /\ pc' = "done"
            /\ numReqs' = i' + 1
            /\ i' <= Max0(tries') - 1
            /\ i' > 0 => logged' = 503
       /\ (MakesCall /\ cmd.op = "Set") =>
            req' = [method |-> "PUT", key |-> cmd.Key,
                    ttl |-> <<cmd.Exptime>>, body |-> cmd.Data]
       /\ (MakesCall /\ numReqs = 0 /\ Classified' /\ res'.code # 503) =>
            ret' = Nil
       /\ (SyncOp /\ pc = "done") => ~MakesCall
      ]_vars

\* Set of a two-byte payload has returned nil after three tries answered 503,
\* the backend having held another value under the key
C20_Witness ==
    /\ Succeeded("Set")
    /\ cmd.Data = <<1, 2>>
    /\ tries = DefaultNumTries
    /\ i = DefaultNumTries - 1
    /\ numReqs = DefaultNumTries
    /\ server[cmd.Key] = <<1, 2>>
    /\ req.body = <<1, 2>>
    /\ req.ttl = <<30>>

\* the step is a call of Close
Closes == closed' # closed

\* C21: Close returns nil, makes no HTTP call and changes nothing of the
\* handler, of the operation in progress on it, of the backend or of the
\* config store, whichever connection calls it and whatever the handler is
\* doing; the steps of Get, Set and Delete do not depend on the calls of
\* Close made so far.
C21_CloseChangesNothing ==
    [][/\ Closes =>
            /\ Len(closed') = Len(closed) + 1
            /\ SubSeq(closed', 1, Len(closed)) = closed
            /\ closed'[Len(closed')].err = Nil
            /\ numReqs' = numReqs
            /\ handlers' = handlers
            /\ UNCHANGED <<conf, handlerVars, storeVars, factories, conns>>
       /\ ~Closes => closed' = closed
       /\ \A k \in 1..Len(closed') :
            /\ closed'[k].err = Nil
            /\ handlers'[conns'[closed'[k].conn].handler] =
                 [urlprefix |-> urlprefix("h1", 8080, "evcache"),
                  client |-> 1]
      ]_vars

\* after both connections have called Close, a Set has stored its payload on
\* its second try
C21_Witness ==
    /\ closed = <<[conn |-> 1, err |-> Nil], [conn |-> 2, err |-> Nil]>>
    /\ Succeeded("Set")
    /\ numReqs = 2
    /\ logged = 503
    /\ cmd.Key \in DOMAIN server
    /\ server[cmd.Key] = cmd.Data

\* the multiplier in the snapshot c, 10 when it is not set
ConfiguredMultiplier(c) ==
    IF "retryDelayMultiplier" \in DOMAIN c
    THEN c["retryDelayMultiplier"] ELSE 10

\* the operation stays in the retry loop of the key at hand
StaysInLoop == SameOp /\ pc = "try" /\ pc' = "try"

\* C22 as stated: every try is made under the try budget that the config
\* store holds at the time of the try, so that a numTries published between
\* two tries governs the tries that remain.
C22_BudgetReadBeforeEachTry ==
    [][MakesCall => KeyCalls < ConfiguredTries(conf)]_vars

\* C22 as amended: numTries is read once, before the first try of Set and
\* of Delete and before the first try of each key of Get; the loop then
\* runs under the value read, whatever is published in between, and gives
\* up when the tries made reach that value.  Only the multiplier is read
\* inside the loop, before each try but the first.
C22_BudgetReadOncePerKey ==
    [][/\ (pc' = "try" /\ pc # "try") => tries' = ConfiguredTries(conf)
       /\ StaysInLoop => tries' = tries
       /\ MakesCall =>
            /\ KeyCalls < tries
            /\ tries' = tries
            /\ slept' = slept \o (IF i > 0
                                  THEN <<i * ConfiguredMultiplier(conf)>>
                                  ELSE <<>>)
       /\ (GaveUp' /\ ~GaveUp) => (SameOp /\ i >= tries /\ tries' = tries)
      ]_vars

\* a Set that read the default budget makes its third try although the
\* store holds a budget of one try since before its second try at the
\* latest (the second wait was under the multiplier 3, published after the
\* first wait, and numTries was published before the multiplier)
C22_Witness ==
    /\ cmd.op = "Set"
    /\ pc = "done"
    /\ ret = Nil
    /\ tries = DefaultNumTries
    /\ ConfiguredTries(conf) = 1
    /\ numReqs = 3
    /\ slept = <<10, 6>>

\* the snapshots the config store can hold
Snapshots ==
    UNION {[D -> NumTriesVals \cup MultiplierVals] :
               D \in SUBSET {NumTriesConfigName,
                             RetryDelayMultiplierConfigName}}

C24_Waits10_40_90 ==
    (RetryDelayMultiplierConfigName \notin DOMAIN conf) =>
        IsPrefix(slept, <<10, 40, 90>>)

\* what the handler does: it waits 10, 20 and 30 ms
C24_Waits10_20_30 ==
    (RetryDelayMultiplierConfigName \notin DOMAIN conf) =>
        IsPrefix(slept, <<10, 20, 30>>)

C24_Witness ==
    /\ RetryDelayMultiplierConfigName \notin DOMAIN conf
    /\ cmd.op = "Delete"
    /\ GaveUp
    /\ slept = <<10, 20, 30>>

\* C25: whenever Get, Set or Delete starts another try or returns, every
\* response body the operation obtained has been closed.
C25_BodiesClosed == unclosed = 0

\* what the handler does: Get closes every body, read or not; Set and
\* Delete close every body but the one whose draining failed, with which
\* they return
C25_ClosedUnlessDrainFailed ==
    unclosed = (IF SyncOp /\ pc = "done" /\ res.readErr # Nil THEN 1 ELSE 0)

\* C26: every try of Set, the retries included, hands client.Do a PUT whose
\* body is the whole payload of the request, so that a backend that handles
\* a retry stores the payload, never an empty or shortened one.
C26_FreshBodyOnEveryTry ==
    [][(MakesCall /\ cmd.op = "Set") =>
         /\ req'.method = "PUT"
         /\ req'.body = cmd.Data
         /\ Len(req'.body) = Len(cmd.Data)
         /\ server' # server =>
              /\ cmd.Key \in DOMAIN server'
              /\ server'[cmd.Key] = cmd.Data
              /\ \A k \in DOMAIN server' \ {cmd.Key} :
                   k \in DOMAIN server /\ server'[k] = server[k]
      ]_vars

\* the third try of a Set of two bytes, made after two answers of 503, has
\* replaced the one byte the backend held
C26_Witness ==
    /\ Succeeded("Set")
    /\ i = 2
    /\ numReqs = 3
    /\ logged = 503
    /\ cmd.Data = <<1, 2>>
    /\ req.body = <<1, 2>>
    /\ server[cmd.Key] = <<1, 2>>

\* the try of the step got a response whose body could not be read
ReadFailed == MakesCall /\ res' # NoRes /\ res'.readErr # Nil

\* C27: a failure to read the response body ends the operation with that
\* failure: Set and Delete return it, Get sends it on the error channel
\* and sends no result for the key.
C27_ReadFailureSurfaced ==
    [][ReadFailed =>
         /\ SyncOp => ret' = res'.readErr
         /\ cmd.op = "Get" =>
              (pc' = "send_err" /\ pending'.err = res'.readErr)
      ]_vars

\* what the handler does: Set and Delete return the failure; Get goes by
\* the status code alone and sends a hit made of the bytes read so far
C27_ReadFailureSurfacedBySetAndDelete ==
    [][ReadFailed =>
         /\ SyncOp => (ret' = res'.readErr /\ pc' = "done")
         /\ cmd.op = "Get" =>
              /\ res'.code = 200 =>
                   (pc' = "send_data" /\ pending'.data.Data = res'.data)
              /\ res'.code = 404 => pc' = "send_data"
              /\ res'.code = 500 => pending'.err = ErrInternal
      ]_vars

\* the maps that only the PUT that made them can reach: copies not yet stored
PrivateMaps == {procs[q].c : q \in {o \in Procs : procs[o].pc = "copied"}}

\* the maps that are or have been in confHolder: the first one, and every
\* copy that was stored
PublishedMaps == (1..Len(heap)) \ PrivateMaps

\* C28: a map that is or has been in confHolder is never written again:
\* it holds what it held when it was stored, which is what every caller
\* that loaded it saw; a PUT writes only to a copy it has just made and
\* nobody else can reach, and only such copies are stored.
C28_PublishedNeverModified ==
    [][/\ Len(heap') >= Len(heap)
       /\ \A a \in PublishedMaps : heap'[a] = heap[a]
       /\ holder \in PublishedMaps
       /\ \A q \in Procs :
            (procs[q].method \in {"GET", "Get"} /\ procs[q].c # 0) =>
                /\ procs[q].c \in PublishedMaps
                /\ heap[procs[q].c] = procs[q].snap
       /\ heap' # heap =>
            \E q \in Procs :
                /\ procs[q].pc = "loaded"
                /\ procs'[q].pc = "copied"
                /\ procs'[q].c = Len(heap) + 1
                /\ Len(heap') = Len(heap) + 1
                /\ heap'[procs'[q].c] =
                     mapAssign(heap[procs[q].c], procs[q].key, procs[q].v)
       /\ holder' # holder =>
            /\ holder' \in PrivateMaps
            /\ heap' = heap
      ]_vars

\* r1 still reads the first map, which has been replaced in confHolder by
\* the map of an earlier PUT, while the PUT r2 has written to its own copy
C28_Witness ==
    /\ Len(heap) = 3
    /\ holder = 2
    /\ heap[2] # heap[1]
    /\ procs["r1"].method = "GET"
    /\ procs["r1"].pc = "lookup"
    /\ procs["r1"].c = 1
    /\ procs["r1"].snap = heap[1]
    /\ procs["r2"].pc = "copied"
    /\ procs["r2"].c = 3
    /\ heap[3] # heap[2]

\* the call q is a PUT that has stored its map and answered 200
StoredPut(q) ==
    /\ procs[q].method = "PUT"
    /\ procs[q].pc = "done"
    /\ Status(procs[q].code) = 200

\* p and q are PUTs of different names that loaded the same map and were
\* both between their confHolder.Load and their confHolder.Store at some
\* time, both have answered 200, and q was the one to store last
Raced(p, q) ==
    /\ p # q
    /\ StoredPut(p) /\ StoredPut(q)
    /\ procs[p].key # procs[q].key
    /\ procs[p].overlap /\ procs[q].overlap
    /\ procs[p].snap = procs[q].snap
    /\ holder = procs[q].c

\* C29: when two PUTs of different names have both loaded confHolder before
\* either stored, both store and answer 200 (nothing compares the map in
\* confHolder with the one loaded), and the map in confHolder afterwards is
\* the common base with the later PUT's pair alone: the earlier PUT's value
\* is lost.
C29_LaterStoreDropsEarlier ==
    \A p, q \in Procs :
        Raced(p, q) =>
            /\ heap[holder] =
                 mapAssign(procs[q].snap, procs[q].key, procs[q].v)
            /\ procs[p].key \in DOMAIN heap[holder] =>
                 /\ procs[p].key \in DOMAIN procs[p].snap
                 /\ heap[holder][procs[p].key] =
                      procs[p].snap[procs[p].key]
            /\ heap[procs[p].c] =
                 mapAssign(procs[p].snap, procs[p].key, procs[p].v)

\* PUT /config/foo of 4 and PUT /config/numTries of -1 on the empty store
\* have both answered 200, and the store holds numTries alone
C29_Witness ==
    /\ Raced("r1", "r2")
    /\ procs["r1"].snap = EmptyConf
    /\ procs["r1"].key = "foo"
    /\ procs["r1"].v = 4
    /\ procs["r2"].key = NumTriesConfigName
    /\ procs["r2"].v = 0 - 1
    /\ DOMAIN heap[holder] = {NumTriesConfigName}
    /\ conf = heap[holder]

\* the operation stands at the test of its retry loop with a try budget of
\* zero or less, read for Set, for Delete or for the first key of Get
ZeroBudget ==
    /\ pc = "try"
    /\ tries <= 0
    /\ cmd.op = "Get" => idx = 1

\* realHandleGet has the internal error to send, no try made for the
\* first key
ZeroBudgetGet ==
    /\ cmd.op = "Get"
    /\ pc = "send_err"
    /\ idx = 1
    /\ tries <= 0
    /\ pending.err # ErrNewRequest

EmptyGet == cmd.op = "Get" /\ cmd.Keys = <<>>

\* C30: with a numTries of zero or less in the config store when the budget
\* is read, Set and Delete return ErrInternal and Get sends ErrInternal for
\* its first key, the caller receiving it and no result, all without any
\* HTTP call (for keys whose URL parses); a Get without keys reads no
\* budget, makes no HTTP call, sends nothing and closes both channels.
C30_NoCallWithoutBudget ==
    [][/\ (pc' = "try" /\ pc # "try" /\ ConfiguredTries(conf) <= 0) =>
            (tries' <= 0 /\ numReqs' = numReqs)
       /\ ZeroBudget =>
            /\ numReqs = 0
            /\ ~MakesCall
            /\ (SameOp /\ pc' # pc /\ SyncOp) =>
                 (pc' = "done" /\ ret' = ErrInternal /\ numReqs' = 0)
            /\ (SameOp /\ pc' # pc /\ cmd.op = "Get") => ZeroBudgetGet'
       /\ ZeroBudgetGet =>
            /\ numReqs = 0
            /\ pending.err = ErrInternal
            /\ dataRecv = <<>>
            /\ (SameOp /\ pc' # pc) =>
                 /\ errRecv' = <<ErrInternal>>
                 /\ dataRecv' = <<>>
                 /\ numReqs' = 0
       /\ EmptyGet' =>
            /\ numReqs' = 0
            /\ tries' = 0
            /\ dataRecv' = <<>> /\ errRecv' = <<>>
            /\ pending' = NoPending
            /\ pc' \in {"outer", "close_data", "close_err", "done"}
            /\ pc' = "done" =>
                 (dataOut' = "closed" /\ errorOut' = "closed")
      ]_vars

\* a Get of two keys under numTries = -1 has ended: the caller got
\* ErrInternal and no result, both channels are closed, no call was made
C30_Witness ==
    /\ cmd.op = "Get"
    /\ Len(cmd.Keys) = 2
    /\ ConfiguredTries(conf) = 0 - 1
    /\ pc = "done"
    /\ errRecv = <<ErrInternal>>
    /\ dataRecv = <<>>
    /\ numReqs = 0
    /\ consData /\ consErr

\* realHandleGet is at errorOut <- err
SendingErr == cmd.op = "Get" /\ pc = "send_err"

\* C31: with a caller that receives from dataOut until it is closed and
\* only then from errorOut, a Get that comes to a terminal error never gets
\* further: realHandleGet stays in its send on errorOut, which nobody
\* receives, dataOut is not closed, so the caller stays in its receive on
\* dataOut; no step of either is possible any more and neither channel is
\* ever closed.  No error ever reaches such a caller; the only Get that
\* ends is the one that delivers a result for every key.
C31_SequentialConsumerDeadlocks ==
    /\ SendingErr =>
         /\ dataOut = "open" /\ errorOut = "open"
         /\ ~consData /\ ~consErr
         /\ pending.err # Nil
         /\ ~ENABLED SeqNext
    /\ errRecv = <<>>
    /\ (cmd.op = "Get" /\ pc = "done") => Len(dataRecv) = Len(cmd.Keys)

\* the first key was delivered, the second was answered 500: realHandleGet
\* is sending ErrInternal and the caller waits for the next result
C31_Witness ==
    /\ SendingErr
    /\ Len(cmd.Keys) = 2
    /\ Len(dataRecv) = 1
    /\ idx = 2
    /\ res.code = 500
    /\ pending.err = ErrInternal
    /\ dataOut = "open"
    /\ errorOut = "open"
    /\ ~consData

\* C32: GetE returns at once, with a nil result channel and an error
\* channel that holds ErrUnknownCmd as its one value and is never closed.
\* A caller that receives from both channels until it has seen both closed
\* gets the error once; after that no step is possible: it waits for ever.
C32_GetENeverCloses ==
    cmd.op = "GetE" =>
        /\ pc = "done"
        /\ numReqs = 0
        /\ dataOut = "nil"
        /\ dataRecv = <<>>
        /\ ~consData /\ ~consErr
        /\ errorOut \in {"buffered", "open"}
        /\ errorOut = "buffered" =>
             /\ pending.err = ErrUnknownCmd
             /\ errRecv = <<>>
             /\ ENABLED RecvErrBuffered
        /\ errorOut = "open" =>
             /\ pending = NoPending
             /\ errRecv = <<ErrUnknownCmd>>
             /\ ~ENABLED DrainNext

\* the caller of GetE has received the error and waits
C32_Witness ==
    /\ cmd.op = "GetE"
    /\ Len(cmd.Keys) = 1
    /\ errRecv = <<ErrUnknownCmd>>
    /\ errorOut = "open"
    /\ dataOut = "nil"
    /\ pc = "done"
    /\ ~consData /\ ~consErr

====
